---- MODULE Spec2Model ----
(***************************************************************************)
(* AeroEvap (src/aeroevap/aero.py) as two state machines.                  *)
(*   Spec    follows one call of _calc / Aero.single_calc statement by     *)
(*           statement.                                                    *)
(*   SpecRun follows Aero.run on a table: the renaming, the helper         *)
(*           columns, the column check, the worker pool and the            *)
(*           write-back; a call of _calc is one step of a worker there.    *)
(*                                                                         *)
(* Floating-point numbers are abstracted to a small value domain: NaN,     *)
(* +/-inf, a non-real complex number, and a few finite reals.  Where the   *)
(* abstraction cannot compute what the arithmetic yields, the outcome is   *)
(* drawn from the values the expression can take.  Control flow, the       *)
(* try/except structure, the loop iterators, the candidate gates, the      *)
(* selection cascade and the return tuples are translated statement by     *)
(* statement.                                                              *)
(***************************************************************************)
EXTENDS Integers, Sequences, FiniteSets, TLC

\* ---------------------------------------------------------------- values
NaN == [k |-> "nan", v |-> 0]
Inf == [k |-> "inf", v |-> 0]
Cplx == [k |-> "cplx", v |-> 0]
Unset == [k |-> "unset", v |-> 0]
Fin(n) == [k |-> "fin", v |-> n]

\* np.isnan
IsNaN(a) == a.k = "nan"

\* cm.isfinite: true of a finite real and of a complex with finite parts
IsFinite(a) == a.k \in {"fin", "cplx"}

\* a > 0 on floats: false when a is NaN
GT0(a) == (a.k = "fin" /\ a.v > 0) \/ a.k = "inf"

\* a < 0 on floats: false when a is NaN
LT0(a) == a.k = "fin" /\ a.v < 0

\* IEEE product: NaN is absorbing, inf*0 is NaN
Mul(a, b) ==
    IF IsNaN(a) \/ IsNaN(b) THEN NaN
    ELSE IF a.k = "inf" \/ b.k = "inf"
         THEN (IF a = Fin(0) \/ b = Fin(0) THEN NaN ELSE Inf)
    ELSE IF a = Fin(0) \/ b = Fin(0) THEN Fin(0)
    ELSE IF a.k = "cplx" \/ b.k = "cplx" THEN Cplx
    ELSE Fin(a.v * b.v)

\* IEEE difference on the values the model subtracts
Sub(a, b) ==
    IF IsNaN(a) \/ IsNaN(b) THEN NaN
    ELSE IF a.k = "fin" /\ b.k = "fin" THEN Fin(a.v - b.v)
    ELSE NaN

\* ---------------------------------------------------------------- inputs
\* the seven numeric arguments of single_calc, in the order of `check`
Fields == {"wind", "pressure", "T_air", "T_skin", "RH", "sensor_height", "timestep"}

AllPresent == [f \in Fields |-> Fin(1)]

\* the rows _calc may be handed: every field present (wind calm or not,
\* pressure zero or not), or exactly one field missing, or two
InputRows ==
    {AllPresent, [AllPresent EXCEPT !["wind"] = Fin(0)],
     [AllPresent EXCEPT !["pressure"] = Fin(0)]}
    \cup {[AllPresent EXCEPT ![f] = NaN] : f \in Fields}
    \cup {[AllPresent EXCEPT !["wind"] = NaN, !["RH"] = NaN]}

\* range(0, 199)
NPasses == 199

\* the statements of the three loop bodies, in source order
StableStmts == <<"u_f", "t_fv", "q_f", "Sm", "Sq", "zc", "zs", "zo", "zoq", "L">>
UnstableStmts == <<"u_f", "t_fv", "q_f", "x", "Sm", "Sq", "zc", "zs", "zo", "zoq", "L">>
NeutralStmts == <<"u_f", "zc", "zs", "zo", "zoq">>

\* the roughness lengths whose provenance is recorded
TVars == {"zo", "zoq", "zot"}

\* the classes of the Monin-Obukhov length L: whether its imaginary part is
\* zero, and its real part (negative, positive, infinite or NaN)
LVals ==
    {[isreal |-> TRUE, re |-> v] : v \in {NaN, Fin(-1), Fin(1), Inf}}
    \cup {[isreal |-> FALSE, re |-> v] : v \in {Fin(-1), Fin(1)}}

\* L as the unstable seeding computes it, with math.log: a real float
RealLVals == {l \in LVals : l.isreal}

\* the values K**2/((log(z/zo)-Sm)*(log(z/zoq)-Sq)) can take after np.real
CeVals == {NaN, Inf, Fin(1), Fin(2)}

\* the values of Ce_n: np.emath.log may make it complex
CeNVals == CeVals \cup {Cplx}

NoTag == [by |-> "-", at |-> "unset"]
NoL == [isreal |-> TRUE, re |-> Unset]
NoFrame == [built |-> FALSE, index |-> "-", columns |-> <<>>, data |-> <<>>]

VARIABLES
    input_list,   \* the row handed to _calc: date and the seven inputs
    pc,           \* position in _calc / single_calc
    VPD, density_air, q_air, q_sat,   \* derived quantities used after the loops
    L,            \* Monin-Obukhov length (class)
    x,            \* the loop variable of the for statements
    iter,         \* items the range iterator of the current loop has yielded
    tag,          \* for each roughness length: which regime assigned it last, and when
    stability_s, Ce_s, stability_u, Ce_u, Ce_n,
    Ce, stability, E,
    ret,          \* the tuple single_calc returned (<<>> before it returns)
    printed,      \* regimes whose 'Could not converge' message was printed
    visited,      \* phases of single_calc that were entered
    exc,          \* where an exception escaped from ("none": nowhere)
    frame,        \* the DataFrame _calc built
    results       \* what pool.map handed back to Aero.run

calcvars == <<input_list, pc, VPD, density_air, q_air, q_sat, L, x, iter, tag,
              stability_s, Ce_s, stability_u, Ce_u, Ce_n, Ce, stability, E,
              ret, printed, visited, exc, frame, results>>

locals == <<VPD, density_air, q_air, q_sat, L, x, iter, tag,
            stability_s, Ce_s, stability_u, Ce_u, Ce_n, Ce, stability, E>>

\* ------------------------------------------------------- Aero.run: its state
\* the index labels of the table: the i-th timestamp
Timestamp(i) == [k |-> "ts", v |-> i]

\* the column names a table can hold: the five required inputs, a wind
\* column under the caller's own name, the three helper columns of lines
\* 88-90 and the four output columns of line 109
ColNames ==
    {"WS", "wind_user", "P", "T_air", "T_skin", "RH",
     "date", "SH", "dt", "E", "Ce", "VPD", "stability"}

\* a column: who wrote it (the caller, or the line of Aero.run that assigned
\* it) and its values by row position
Column(src, vals) == [src |-> src, vals |-> vals]
NoColumn == Column("absent", <<>>)

\* Aero._df as __init__ leaves it when no frame was passed (line 35)
NoTable ==
    [assigned |-> FALSE, index |-> <<>>, columns |-> [c \in ColNames |-> NoColumn]]

\* `c in df.columns`
Has(t, c) == t.columns[c].src # "absent"

\* the argument values None of variable_names and of nproc
NoneNames == [none |-> TRUE, pairs |-> {}]
NoneProc == [none |-> TRUE, n |-> 0]

NoPool == [created |-> FALSE, processes |-> 0, next |-> 1, running |-> {}]

VARIABLES
    run_pc,       \* position in Aero.run ("idle": no run is followed)
    args,         \* the arguments variable_names and nproc of the call
    cpu_count,    \* what mp.cpu_count() answers on this machine
    self_df,      \* the caller's table, Aero._df
    before,       \* Aero._df as it was when run was called
    df,           \* the local name df of run
    df_is_self,   \* whether df is the same object as Aero._df
    pool,         \* the worker pool: its size, the next task, the tasks running
    calls,        \* for each row, how many times _calc was invoked on it
    map_results,  \* for each row, the frame its task produced (NoFrame: none yet)
    failed,       \* the rows whose task raised
    diag,         \* the diagnostics run printed
    run_exc,      \* the exception that left run ("none": none)
    calc_of       \* what _calc does with each observation (a pure function)

runvars == <<run_pc, args, cpu_count, self_df, before, df, df_is_self, pool,
             calls, map_results, failed, diag, run_exc, calc_of>>

vars == <<calcvars, runvars>>

\* no run is followed: one call of _calc is looked at on its own
RunIdle ==
    /\ run_pc = "idle"
    /\ args = [variable_names |-> NoneNames, nproc |-> NoneProc]
    /\ cpu_count = 2
    /\ self_df = NoTable /\ before = NoTable
    /\ df = NoTable /\ df_is_self = FALSE
    /\ pool = NoPool
    /\ calls = <<>> /\ map_results = <<>> /\ failed = {}
    /\ diag = {}
    /\ run_exc = "none"
    /\ calc_of = <<>>

Init ==
    /\ input_list \in {[date |-> "t1", obs |-> r] : r \in InputRows}
    /\ pc = "check"
    /\ VPD = Unset /\ density_air = Unset /\ q_air = Unset /\ q_sat = Unset
    /\ L = NoL
    /\ x = Unset
    /\ iter = 0
    /\ tag = [n \in TVars |-> NoTag]
    /\ stability_s = NoL /\ Ce_s = Unset
    /\ stability_u = NoL /\ Ce_u = Unset
    /\ Ce_n = Unset
    /\ Ce = Unset /\ stability = Unset /\ E = Unset
    /\ ret = <<>>
    /\ printed = {}
    /\ visited = {}
    /\ exc = "none"
    /\ frame = NoFrame
    /\ results = <<>>
    /\ RunIdle

\* ------------------------------------------------------- single_calc: entry
\* the array `check` of lines 154-156
CheckFields == Fields

\* np.isnan(check).any()
AnyMissing(obs) == \E f \in CheckFields : IsNaN(obs[f])

\* the tuple returned at lines 159 and 259
NanReturn == <<NaN, NaN, NaN>>

\* an exception leaves single_calc at `site`
Raise(site) ==
    /\ exc' = site
    /\ pc' = "raised"

\* lines 154-159
CheckInputs ==
    /\ pc = "check"
    /\ IF AnyMissing(input_list.obs)
       THEN /\ ret' = NanReturn
            /\ pc' = "returned"
       ELSE /\ pc' = "derive"
            /\ UNCHANGED ret
    /\ UNCHANGED <<input_list, locals, printed, visited, exc, frame, results>>
    /\ UNCHANGED runvars

\* the derived quantities of lines 170-203 that the code uses after the loops
DerivedVals ==
    {[VPD |-> Fin(1), density_air |-> Fin(1), q_air |-> Fin(1), q_sat |-> Fin(2)]}

\* lines 170-203; 1000./pressure raises ZeroDivisionError when pressure is 0.0
Derive ==
    /\ pc = "derive"
    /\ IF input_list.obs["pressure"] = Fin(0)
       THEN /\ Raise("derive")
            /\ UNCHANGED <<VPD, density_air, q_air, q_sat, visited>>
       ELSE \E d \in DerivedVals :
            /\ VPD' = d.VPD
            /\ density_air' = d.density_air
            /\ q_air' = d.q_air
            /\ q_sat' = d.q_sat
            /\ visited' = visited \cup {"derive"}
            /\ pc' = "s_seed"
            /\ UNCHANGED exc
    /\ UNCHANGED <<input_list, L, x, iter, tag, stability_s, Ce_s, stability_u,
                   Ce_u, Ce_n, Ce, stability, E, ret, printed, frame, results>>
    /\ UNCHANGED runvars

\* ------------------------------------------------------- provenance of zo, zoq, zot
\* the names in `names` were assigned by the seeding of regime r
SeedTags(r, names) ==
    [n \in TVars |-> IF n \in names THEN [by |-> r, at |-> "seed"] ELSE tag[n]]

\* the statements of a pass that ran to completion when statement f raised
\* (f = 0: none raised, the whole body ran)
Completed(stmts, f) ==
    {stmts[i] : i \in 1..(IF f = 0 THEN Len(stmts) ELSE f - 1)}

\* after a pass of regime r: what the pass assigned is fresh, what an earlier
\* pass of the same loop assigned and this pass did not reach is stale
PassTags(r, stmts, f) ==
    [n \in TVars |->
        IF n \in Completed(stmts, f) THEN [by |-> r, at |-> "fresh"]
        ELSE IF tag[n] = [by |-> r, at |-> "fresh"] THEN [by |-> r, at |-> "stale"]
        ELSE tag[n]]

\* ------------------------------------------------------- the for statements
\* a while loop driven by the loop variable, which the body may reassign
WhileXHasNext(i, xv) == IF xv.k = "fin" THEN xv.v + 1 < NPasses ELSE TRUE

\* `for x in range(0, 199)`: the iterator yields while it has items left,
\* whatever the body assigned to x
RangeHasNext(i, xv) == i < NPasses

\* z/L for a sensor height z > 0: 1/inf is 0, the sign of L is kept
ZOverL(l) ==
    [isreal |-> l.isreal,
     re |-> IF l.re.k = "inf" THEN Fin(0) ELSE l.re]

\* ------------------------------------------------------- stable regime
\* the gate of lines 263-269 with the sign test dropped
StableGateNoSign(l) == l.isreal

\* lines 263-269: Ce_s is computed only when L is real and z/L > 0
StableGate(l) == l.isreal /\ GT0(ZOverL(l).re)

\* lines 210-231: seeds and the first L; the seeding is outside the try, so a
\* fault in it (cm.log(z/zo) = 0 when z = zo, z/zot with zot = 0) escapes
StableSeed ==
    /\ pc = "s_seed"
    /\ \/ /\ Raise("s_seed")
          /\ UNCHANGED <<L, iter, tag, visited>>
       \/ /\ \E l \in LVals : L' = l
          /\ tag' = SeedTags("s", {"zo", "zoq", "zot"})
          /\ iter' = 0
          /\ visited' = visited \cup {"s_loop"}
          /\ pc' = "s_loop"
          /\ UNCHANGED exc
    /\ UNCHANGED <<input_list, VPD, density_air, q_air, q_sat, x, stability_s,
                   Ce_s, stability_u, Ce_u, Ce_n, Ce, stability, E, ret,
                   printed, frame, results>>
    /\ UNCHANGED runvars

\* lines 233-259: one pass of the stable loop; a fault in statement f is
\* caught by the bare except, which prints and returns three NaNs
StablePass ==
    /\ pc = "s_loop"
    /\ RangeHasNext(iter, x)
    /\ \E f \in 0..Len(StableStmts) :
        /\ iter' = iter + 1
        /\ x' = Fin(iter)
        /\ tag' = PassTags("s", StableStmts, f)
        /\ IF f = 0
           THEN /\ \E l \in LVals : L' = l
                /\ UNCHANGED <<pc, printed, ret>>
           ELSE /\ printed' = printed \cup {"s"}
                /\ ret' = NanReturn
                /\ pc' = "returned"
                /\ UNCHANGED L
    /\ UNCHANGED <<input_list, VPD, density_air, q_air, q_sat, stability_s,
                   Ce_s, stability_u, Ce_u, Ce_n, Ce, stability, E, visited,
                   exc, frame, results>>
    /\ UNCHANGED runvars

\* lines 261-269: stability_s and the gated candidate Ce_s; cm.log in the
\* candidate expression is outside any try
StableExtract ==
    /\ pc = "s_loop"
    /\ ~RangeHasNext(iter, x)
    /\ stability_s' = ZOverL(L)
    /\ \/ /\ StableGate(L)
          /\ Raise("s_extract")
          /\ UNCHANGED <<Ce_s, visited>>
       \/ /\ \E c \in (IF StableGate(L) THEN CeVals ELSE {NaN}) : Ce_s' = c
          /\ visited' = visited \cup {"s_extract"}
          /\ pc' = "u_seed"
          /\ UNCHANGED exc
    /\ UNCHANGED <<input_list, VPD, density_air, q_air, q_sat, L, x, iter, tag,
                   stability_u, Ce_u, Ce_n, Ce, stability, E, ret, printed,
                   frame, results>>
    /\ UNCHANGED runvars

\* ------------------------------------------------------- unstable regime
\* lines 326-332: Ce_u is computed only when L is real and z/L < 0
UnstableGate(l) == l.isreal /\ LT0(ZOverL(l).re)

\* line 306, x = (1-16*(z/L))**.25: above 1 for z/L < 0, 1 for z/L = 0; for
\* z/L > 0 the base is negative: NaN from a float, complex from a complex
XVals(l) ==
    IF ~l.isreal THEN {Cplx}
    ELSE IF IsNaN(ZOverL(l).re) THEN {NaN}
    ELSE IF LT0(ZOverL(l).re) THEN {Fin(2)}
    ELSE IF ZOverL(l).re = Fin(0) THEN {Fin(1)}
    ELSE {NaN, Cplx}

\* lines 274-295: seeds and the first L, with math.log and math.exp outside
\* any try: a fault in them (z <= 0, z = zo, a negative base under **.25)
\* escapes
UnstableSeed ==
    /\ pc = "u_seed"
    /\ \/ /\ Raise("u_seed")
          /\ UNCHANGED <<L, iter, tag, visited>>
       \/ /\ \E l \in RealLVals : L' = l
          /\ tag' = SeedTags("u", {"zo", "zoq", "zot"})
          /\ iter' = 0
          /\ visited' = visited \cup {"u_loop"}
          /\ pc' = "u_loop"
          /\ UNCHANGED exc
    /\ UNCHANGED <<input_list, VPD, density_air, q_air, q_sat, x, stability_s,
                   Ce_s, stability_u, Ce_u, Ce_n, Ce, stability, E, ret,
                   printed, frame, results>>
    /\ UNCHANGED runvars

\* lines 297-323: one pass of the unstable loop; statement 4 reassigns x; a
\* fault in statement f is caught, the handler prints and falls through
UnstablePass ==
    /\ pc = "u_loop"
    /\ RangeHasNext(iter, x)
    /\ \E f \in 0..Len(UnstableStmts) :
        /\ iter' = iter + 1
        /\ tag' = PassTags("u", UnstableStmts, f)
        /\ IF "x" \in Completed(UnstableStmts, f)
           THEN \E xv \in XVals(L) : x' = xv
           ELSE x' = Fin(iter)
        /\ IF f = 0
           THEN /\ \E l \in LVals : L' = l
                /\ UNCHANGED <<pc, printed>>
           ELSE /\ printed' = printed \cup {"u"}
                /\ pc' = "u_extract"
                /\ UNCHANGED L
    /\ UNCHANGED <<input_list, VPD, density_air, q_air, q_sat, stability_s,
                   Ce_s, stability_u, Ce_u, Ce_n, Ce, stability, E, ret,
                   visited, exc, frame, results>>
    /\ UNCHANGED runvars

\* the for statement of line 298 is exhausted
UnstableLoopEnd ==
    /\ pc = "u_loop"
    /\ ~RangeHasNext(iter, x)
    /\ pc' = "u_extract"
    /\ UNCHANGED <<input_list, locals, ret, printed, visited, exc, frame, results>>
    /\ UNCHANGED runvars

\* lines 325-336: stability_u and the gated candidate Ce_u, from whatever the
\* loop left in L, zo, zoq, Sm, Sq; then the neutral seed zo = .00010
UnstableExtract ==
    /\ pc = "u_extract"
    /\ stability_u' = ZOverL(L)
    /\ \/ /\ UnstableGate(L)
          /\ Raise("u_extract")
          /\ UNCHANGED <<Ce_u, tag, iter, visited>>
       \/ /\ \E c \in (IF UnstableGate(L) THEN CeVals ELSE {NaN}) : Ce_u' = c
          /\ tag' = SeedTags("n", {"zo"})
          /\ iter' = 0
          /\ visited' = visited \cup {"u_extract", "n_loop"}
          /\ pc' = "n_loop"
          /\ UNCHANGED exc
    /\ UNCHANGED <<input_list, VPD, density_air, q_air, q_sat, L, x,
                   stability_s, Ce_s, Ce_n, Ce, stability, E, ret, printed,
                   frame, results>>
    /\ UNCHANGED runvars

\* ------------------------------------------------------- neutral regime
\* lines 338-353: one pass of the neutral loop; a fault in statement f is
\* caught, the handler prints and falls through
NeutralPass ==
    /\ pc = "n_loop"
    /\ RangeHasNext(iter, x)
    /\ \E f \in 0..Len(NeutralStmts) :
        /\ iter' = iter + 1
        /\ x' = Fin(iter)
        /\ tag' = PassTags("n", NeutralStmts, f)
        /\ IF f = 0
           THEN UNCHANGED <<pc, printed>>
           ELSE /\ printed' = printed \cup {"n"}
                /\ pc' = "n_extract"
    /\ UNCHANGED <<input_list, VPD, density_air, q_air, q_sat, L, stability_s,
                   Ce_s, stability_u, Ce_u, Ce_n, Ce, stability, E, ret,
                   visited, exc, frame, results>>
    /\ UNCHANGED runvars

\* the for statement of line 340 is exhausted
NeutralLoopEnd ==
    /\ pc = "n_loop"
    /\ ~RangeHasNext(iter, x)
    /\ pc' = "n_extract"
    /\ UNCHANGED <<input_list, locals, ret, printed, visited, exc, frame, results>>
    /\ UNCHANGED runvars

\* ------------------------------------------------------- selection and return
\* a cascade that asks the unstable candidate first
SelectUnstableFirst(cs, cu, cn, ss, su) ==
    IF IsFinite(cu) THEN [Ce |-> cu, stability |-> su]
    ELSE IF IsFinite(cs) THEN [Ce |-> cs, stability |-> ss]
    ELSE [Ce |-> cn, stability |-> [isreal |-> TRUE, re |-> Fin(0)]]

\* a cascade that reports the stable regime's z/L whatever it selected
SelectStableStability(cs, cu, cn, ss, su) ==
    IF IsFinite(cs) THEN [Ce |-> cs, stability |-> ss]
    ELSE IF IsFinite(cu) THEN [Ce |-> cu, stability |-> ss]
    ELSE [Ce |-> cn, stability |-> ss]

\* lines 362-371: the cascade over the three candidates and the stability
\* that goes with the selected one
Select(cs, cu, cn, ss, su) ==
    IF IsFinite(cs) THEN [Ce |-> cs, stability |-> ss]
    ELSE IF IsFinite(cu) THEN [Ce |-> cu, stability |-> su]
    ELSE [Ce |-> cn, stability |-> [isreal |-> TRUE, re |-> Fin(0)]]

\* line 374: E = density_air*Ce*(q_sat-q_air)*wind*timestep
Evaporation(rho, ce, qs, qa, wind, dt) ==
    Mul(Mul(Mul(Mul(rho, ce), Sub(qs, qa)), wind), dt)

\* a return that blanks the whole result when the coefficient is NaN
ResultTupleAllNaN(e, ce, vpd, stab) ==
    IF IsNaN(ce) THEN <<NaN, NaN, NaN, NaN>> ELSE <<e, ce, vpd, stab.re>>

\* line 376: the tuple returned after selection; np.real(stability)
ResultTuple(e, ce, vpd, stab) == <<e, ce, vpd, stab.re>>

\* lines 355-376: Ce_n from whatever the neutral loop left in zo and zoq
\* (ungated), the cascade, E, and the return of the four outputs.  The loop
\* variable and the iterator are released with the frame; the model keeps
\* the candidates next to ret so that the result can be related to them.
SelectReturn ==
    /\ pc = "n_extract"
    /\ \E c \in CeNVals :
        LET sel == Select(Ce_s, Ce_u, c, stability_s, stability_u)
            e == Evaporation(density_air, sel.Ce, q_sat, q_air,
                             input_list.obs["wind"], input_list.obs["timestep"])
        IN /\ Ce_n' = c
           /\ Ce' = sel.Ce
           /\ stability' = sel.stability.re
           /\ E' = e
           /\ ret' = ResultTuple(e, sel.Ce, VPD, sel.stability)
    /\ x' = Unset
    /\ iter' = 0
    /\ visited' = visited \cup {"n_extract", "select"}
    /\ pc' = "returned"
    /\ UNCHANGED <<input_list, VPD, density_air, q_air, q_sat, L, tag,
                   stability_s, Ce_s, stability_u, Ce_u, printed, exc, frame,
                   results>>
    /\ UNCHANGED runvars

\* ------------------------------------------------------- _calc and pool.map
\* the columns of the one-row frame _calc builds
OutputColumns == <<"E", "Ce", "VPD", "stability">>

\* lines 393-401: pd.DataFrame(index=[date], columns=[...four...], data=[tuple])
\* raises ValueError when the tuple does not have one value per column
CalcFrame ==
    /\ pc = "returned"
    /\ IF Len(ret) = Len(OutputColumns)
       THEN /\ frame' = [built |-> TRUE, index |-> input_list.date,
                         columns |-> OutputColumns, data |-> ret]
            /\ pc' = "calc_done"
            /\ UNCHANGED exc
       ELSE /\ Raise("_calc")
            /\ UNCHANGED frame
    /\ UNCHANGED <<input_list, locals, ret, printed, visited, results>>
    /\ UNCHANGED runvars

\* line 104: pool.map hands the worker's frame back to Aero.run
PoolMapReturn ==
    /\ pc = "calc_done"
    /\ results' = Append(results, frame)
    /\ pc' = "run_done"
    /\ UNCHANGED <<input_list, locals, ret, printed, visited, exc, frame>>
    /\ UNCHANGED runvars

\* line 104: pool.map re-raises in Aero.run what the worker raised
PoolMapRaise ==
    /\ pc = "raised"
    /\ pc' = "run_raised"
    /\ UNCHANGED <<input_list, locals, ret, printed, visited, exc, frame, results>>
    /\ UNCHANGED runvars

Next ==
    \/ CheckInputs
    \/ Derive
    \/ StableSeed
    \/ StablePass
    \/ StableExtract
    \/ UnstableSeed
    \/ UnstablePass
    \/ UnstableLoopEnd
    \/ UnstableExtract
    \/ NeutralPass
    \/ NeutralLoopEnd
    \/ SelectReturn
    \/ CalcFrame
    \/ PoolMapReturn
    \/ PoolMapRaise

Spec == Init /\ [][Next]_vars

\* ------------------------------------------------------- Aero.run: its inputs
\* the most rows a table has
MaxRows == 2

\* the largest nproc argument
MaxNproc == 2

\* the most cores mp.cpu_count() reports
MaxCores == 4

\* the observations a row of the table can hold
RunObs ==
    {AllPresent, [AllPresent EXCEPT !["wind"] = Fin(0)],
     [AllPresent EXCEPT !["RH"] = NaN]}

RowSeqs == UNION {[1..n -> RunObs] : n \in 1..MaxRows}

\* the value a caller's column c holds in a row with observation obs; a
\* caller's column that is not an input (their own `date`) holds 7
CellOf(c, obs) ==
    CASE c \in {"WS", "wind_user"} -> obs["wind"]
      [] c = "P" -> obs["pressure"]
      [] c = "T_air" -> obs["T_air"]
      [] c = "T_skin" -> obs["T_skin"]
      [] c = "RH" -> obs["RH"]
      [] OTHER -> Fin(7)

\* a table of the caller: indexed by distinct timestamps, holding the
\* columns `names`
CallerTable(rows, names) ==
    [assigned |-> TRUE,
     index |-> [i \in 1..Len(rows) |-> Timestamp(i)],
     columns |-> [c \in ColNames |->
         IF c \in names
         THEN Column("caller", [i \in 1..Len(rows) |-> CellOf(c, rows[i])])
         ELSE NoColumn]]

\* the column sets of the caller's tables: pressure and the temperatures,
\* and any of WS, a wind column under the caller's name, RH, and a column of
\* the caller's called `date`; no table has the wind twice
CallerColumnSets ==
    {{"P", "T_air", "T_skin"} \cup S :
        S \in {T \in SUBSET {"WS", "wind_user", "RH", "date"} :
                  ~({"WS", "wind_user"} \subseteq T)}}

CallerTables ==
    {NoTable} \cup {CallerTable(r, cs) : r \in RowSeqs, cs \in CallerColumnSets}

\* variable_names: None, an empty dict, or {'wind_user': 'WS'}
VariableNames ==
    {NoneNames, [none |-> FALSE, pairs |-> {}],
     [none |-> FALSE, pairs |-> {<<"wind_user", "WS">>}]}

\* nproc: None or a non-negative integer
NprocArgs == {NoneProc} \cup {[none |-> FALSE, n |-> k] : k \in 0..MaxNproc}

\* lines 130-376 seen from _calc: what single_calc returns for an
\* observation: three NaNs (line 159, or line 259 after a stable-loop fault),
\* or the four outputs of line 376 with a finite or a NaN coefficient
SolverReturns(obs) ==
    IF AnyMissing(obs) THEN {NanReturn}
    ELSE {NanReturn} \cup
         {ResultTuple(Evaporation(d.density_air, ce, d.q_sat, d.q_air,
                                  obs["wind"], obs["timestep"]),
                      ce, d.VPD, [isreal |-> TRUE, re |-> Fin(0)]) :
             d \in DerivedVals, ce \in {Fin(1), NaN}}

\* lines 393-401: _calc makes a one-row frame of the tuple, or pd.DataFrame
\* raises because the tuple has not one value per column
FrameOrRaise(r) ==
    IF Len(r) = Len(OutputColumns)
    THEN [raised |-> FALSE, data |-> r]
    ELSE [raised |-> TRUE, data |-> <<>>]

CalcOutcomes(obs) == {FrameOrRaise(r) : r \in SolverReturns(obs)}

\* the state when Aero.run is called
RunInit ==
    /\ run_pc = "start"
    /\ args \in [variable_names : VariableNames, nproc : NprocArgs]
    /\ cpu_count \in 1..MaxCores
    /\ self_df \in CallerTables
    /\ before = self_df
    /\ df = NoTable /\ df_is_self = FALSE
    /\ pool = NoPool
    /\ calls = <<>> /\ map_results = <<>> /\ failed = {}
    /\ diag = {}
    /\ run_exc = "none"
    /\ calc_of \in {f \in [RunObs -> UNION {CalcOutcomes(o) : o \in RunObs}] :
                       \A o \in RunObs : f[o] \in CalcOutcomes(o)}

\* no call of _calc is followed step by step
CalcIdle ==
    /\ input_list = [date |-> "t1", obs |-> AllPresent]
    /\ pc = "idle"
    /\ VPD = Unset /\ density_air = Unset /\ q_air = Unset /\ q_sat = Unset
    /\ L = NoL
    /\ x = Unset
    /\ iter = 0
    /\ tag = [n \in TVars |-> NoTag]
    /\ stability_s = NoL /\ Ce_s = Unset
    /\ stability_u = NoL /\ Ce_u = Unset
    /\ Ce_n = Unset
    /\ Ce = Unset /\ stability = Unset /\ E = Unset
    /\ ret = <<>>
    /\ printed = {}
    /\ visited = {}
    /\ exc = "none"
    /\ frame = NoFrame
    /\ results = <<>>

InitRun == RunInit /\ CalcIdle

\* ------------------------------------------------------- Aero.run: lines 76-97
\* the name a column has after df.rename(columns=variable_names)
NewName(c, pairs) ==
    IF \E p \in pairs : p[1] = c THEN (CHOOSE p \in pairs : p[1] = c)[2] ELSE c

\* line 84: rename returns a new table whose columns carry the new names
\* (the tables of the model never hold a column under both names)
Rename(t, pairs) ==
    [t EXCEPT !.columns = [c \in ColNames |->
        LET from == {o \in ColNames : Has(t, o) /\ NewName(o, pairs) = c}
        IN IF from = {} THEN NoColumn ELSE t.columns[CHOOSE o \in from : TRUE]]]

\* lines 88-90: df['date'] = df.index; df['SH'] = sensor_height;
\* df['dt'] = timestep.  A column of that name is replaced.
WithHelpers(t) ==
    [t EXCEPT !.columns["date"] = Column("index", t.index),
              !.columns["SH"] =
                  Column("sensor_height", [i \in 1..Len(t.index) |-> Fin(1)]),
              !.columns["dt"] =
                  Column("timestep", [i \in 1..Len(t.index) |-> Fin(1)])]

\* line 91
InputVars == {"date", "WS", "P", "T_air", "T_skin", "RH", "SH", "dt"}

\* a check that is content with any one of the needed columns
AnyInputPresent(t) == \E c \in InputVars \ {"date", "SH", "dt"} : Has(t, c)

\* line 92: set(input_vars).issubset(df.columns)
AllInputsPresent(t) == \A c \in InputVars : Has(t, c)

\* lines 76-97: the frame check, the renaming, the helper columns and the
\* check of the needed columns.  With variable_names None, df is Aero._df
\* itself and the helper columns are assigned in the caller's table.
RunStart ==
    /\ run_pc = "start"
    /\ IF ~self_df.assigned
       THEN /\ diag' = diag \cup {"no_frame"}
            /\ run_pc' = "returned"
            /\ UNCHANGED <<self_df, df, df_is_self>>
       ELSE LET alias == args.variable_names.none
                renamed == IF alias THEN self_df
                           ELSE Rename(self_df, args.variable_names.pairs)
                t == WithHelpers(renamed)
            IN /\ df' = t
               /\ df_is_self' = alias
               /\ self_df' = IF alias THEN t ELSE self_df
               /\ IF AllInputsPresent(t)
                  THEN /\ run_pc' = "pool"
                       /\ UNCHANGED diag
                  ELSE /\ diag' = diag \cup {"missing_columns"}
                       /\ run_pc' = "returned"
    /\ UNCHANGED <<args, cpu_count, before, pool, calls, map_results, failed,
                   run_exc, calc_of>>
    /\ UNCHANGED calcvars

\* ------------------------------------------------------- Aero.run: lines 99-106
\* the column of df[input_vars] that _calc passes for each argument
ColumnOfField(f) ==
    CASE f = "wind" -> "WS"
      [] f = "pressure" -> "P"
      [] f = "sensor_height" -> "SH"
      [] f = "timestep" -> "dt"
      [] OTHER -> f

\* line 100 and lines 393-399: the list made of row i, as _calc unpacks it
InputRow(t, i) ==
    [date |-> t.columns["date"].vals[i],
     obs |-> [f \in Fields |-> t.columns[ColumnOfField(f)].vals[i]]]

\* lines 101-102: `if not nproc: nproc = mp.cpu_count() // 2`
PoolSize(nproc, cores) ==
    IF nproc.none \/ nproc.n = 0 THEN cores \div 2 ELSE nproc.n

\* lines 100-103: the inputs are listed and the pool is created;
\* mp.Pool(processes=0) raises ValueError
CreatePool ==
    /\ run_pc = "pool"
    /\ LET n == PoolSize(args.nproc, cpu_count)
       IN IF n < 1
          THEN /\ run_exc' = "Pool"
               /\ run_pc' = "raised"
               /\ UNCHANGED <<pool, calls, map_results>>
          ELSE /\ pool' = [created |-> TRUE, processes |-> n, next |-> 1,
                           running |-> {}]
               /\ calls' = [i \in 1..Len(df.index) |-> 0]
               /\ map_results' = [i \in 1..Len(df.index) |-> NoFrame]
               /\ run_pc' = "map"
               /\ UNCHANGED run_exc
    /\ UNCHANGED <<args, cpu_count, self_df, before, df, df_is_self, failed,
                   diag, calc_of>>
    /\ UNCHANGED calcvars

\* line 104, pool.map: an idle process takes the next task off the queue.
\* The chunk size of map is ceil(rows / (4 * processes)), which is 1 for the
\* tables of the model: a task is one row.
WorkerTake ==
    /\ run_pc = "map"
    /\ pool.next <= Len(df.index)
    /\ Cardinality(pool.running) < pool.processes
    /\ pool' = [pool EXCEPT !.running = @ \cup {pool.next}, !.next = @ + 1]
    /\ UNCHANGED <<run_pc, args, cpu_count, self_df, before, df, df_is_self,
                   calls, map_results, failed, diag, run_exc, calc_of>>
    /\ UNCHANGED calcvars

\* line 104, pool.map: a process finishes _calc on its row, in any order;
\* the frame is stored at the row's position, an exception is kept
WorkerFinish ==
    /\ run_pc = "map"
    /\ \E i \in pool.running :
        LET il == InputRow(df, i)
            o == calc_of[il.obs]
        IN /\ calls' = [calls EXCEPT ![i] = @ + 1]
           /\ pool' = [pool EXCEPT !.running = @ \ {i}]
           /\ IF o.raised
              THEN /\ failed' = failed \cup {i}
                   /\ UNCHANGED map_results
              ELSE /\ map_results' =
                        [map_results EXCEPT ![i] =
                            [built |-> TRUE, index |-> il.date,
                             columns |-> OutputColumns, data |-> o.data]]
                   /\ UNCHANGED failed
    /\ UNCHANGED <<run_pc, args, cpu_count, self_df, before, df, df_is_self,
                   diag, run_exc, calc_of>>
    /\ UNCHANGED calcvars

\* lines 104-106: map returns when every task is done: the list of frames
\* in the order of the inputs, or the exception of a task re-raised
MapDone ==
    /\ run_pc = "map"
    /\ pool.next > Len(df.index)
    /\ pool.running = {}
    /\ IF failed # {}
       THEN /\ run_exc' = "_calc"
            /\ run_pc' = "raised"
       ELSE /\ run_pc' = "write"
            /\ UNCHANGED run_exc
    /\ UNCHANGED <<args, cpu_count, self_df, before, df, df_is_self, pool,
                   calls, map_results, failed, diag, calc_of>>
    /\ UNCHANGED calcvars

\* ------------------------------------------------------- Aero.run: lines 108-113
\* the helper columns of line 111
HelperNames == {"date", "SH", "dt"}

\* results_df[c] at index label `label`: pd.concat stacks the one-row frames,
\* and the assignment of line 110 aligns them with Aero._df on the index
ResultAt(frames, label, c) ==
    LET j == CHOOSE j \in 1..Len(frames) : frames[j].index = label
        k == CHOOSE k \in 1..Len(OutputColumns) : OutputColumns[k] = c
    IN frames[j].data[k]

\* lines 108-113: the four output columns are assigned in Aero._df, then
\* every column of Aero._df called date, SH or dt is dropped
WriteBack ==
    /\ run_pc = "write"
    /\ LET outs == {OutputColumns[k] : k \in 1..Len(OutputColumns)}
           written == [c \in ColNames |->
               IF c \in outs
               THEN Column("results",
                           [i \in 1..Len(self_df.index) |->
                               ResultAt(map_results, self_df.index[i], c)])
               ELSE self_df.columns[c]]
           cleaned == [self_df EXCEPT !.columns = [c \in ColNames |->
               IF c \in HelperNames THEN NoColumn ELSE written[c]]]
       IN /\ self_df' = cleaned
          /\ df' = IF df_is_self THEN cleaned ELSE df
    /\ run_pc' = "returned"
    /\ UNCHANGED <<args, cpu_count, before, df_is_self, pool, calls,
                   map_results, failed, diag, run_exc, calc_of>>
    /\ UNCHANGED calcvars

NextRun ==
    \/ RunStart
    \/ CreatePool
    \/ WorkerTake
    \/ WorkerFinish
    \/ MapDone
    \/ WriteBack

SpecRun == InitRun /\ [][NextRun]_vars

\* ------------------------------------------------------- properties
\* single_calc returned after regime selection (line 376)
Selected == Len(ret) = 4

\* a >= 0 on floats: false when a is NaN
GE0(a) == (a.k = "fin" /\ a.v >= 0) \/ a.k = "inf"

\* a <= 0 on floats: false when a is NaN
LE0(a) == a.k = "fin" /\ a.v <= 0

\* the sites of single_calc outside Phase 0 where an exception can leave it
SolverSites == {"s_seed", "s_extract", "u_seed", "u_extract"}

\* C1: a call with a NaN input raises nothing and returns four outputs, all
\* NaN, before any derived quantity is computed.
C1_MissingInputFourNaNs ==
    AnyMissing(input_list.obs) =>
        /\ exc \in {"none", "_calc"}
        /\ "derive" \notin visited
        /\ ret # <<>> => /\ Len(ret) = 4
                         /\ \A i \in 1..Len(ret) : IsNaN(ret[i])

\* C2: after a fault in the loop of any regime, the remaining regimes are
\* still iterated and the selection step is still reached before
\* single_calc returns.
C2_FaultKeepsOtherRegimes ==
    (ret # <<>> /\ printed # {}) =>
        /\ "select" \in visited
        /\ ("s" \in printed => {"u_loop", "n_loop"} \subseteq visited)
        /\ ("u" \in printed => "n_loop" \in visited)

\* C3: when selection has run, the candidate of every regime whose loop was
\* aborted by a fault is NaN.
C3_AbortedRegimeCandidateNaN ==
    Selected =>
        /\ ("s" \in printed => IsNaN(Ce_s))
        /\ ("u" \in printed => IsNaN(Ce_u))
        /\ ("n" \in printed => IsNaN(Ce_n))

\* all three candidates are NaN at the return after selection
AllRegimesFailed == Selected /\ IsNaN(Ce_s) /\ IsNaN(Ce_u) /\ IsNaN(Ce_n)

C5_NoFaultEscapes ==
    ~AnyMissing(input_list.obs) => exc \notin SolverSites

\* C6: the returned Ce is Ce_s when Ce_s is finite, else Ce_u when Ce_u is
\* finite, else Ce_n, finite or not.
C6_PriorityCascade ==
    Selected =>
        /\ (IsFinite(Ce_s) => ret[2] = Ce_s)
        /\ (~IsFinite(Ce_s) /\ IsFinite(Ce_u) => ret[2] = Ce_u)
        /\ (~IsFinite(Ce_s) /\ ~IsFinite(Ce_u) => ret[2] = Ce_n)

\* witness of C6: both the stable and the unstable candidate are finite and
\* differ, and the stable one was returned
C6_Witness ==
    /\ Selected
    /\ IsFinite(Ce_s) /\ IsFinite(Ce_u) /\ Ce_s # Ce_u
    /\ ret[2] = Ce_s

\* C7: the returned stability is the z/L of the regime whose coefficient was
\* selected (a real number there), and 0 for the neutral fallback.
C7_StabilityOfSelected ==
    Selected =>
        /\ (IsFinite(Ce_s) => stability_s.isreal /\ ret[4] = stability_s.re)
        /\ (~IsFinite(Ce_s) /\ IsFinite(Ce_u) =>
                stability_u.isreal /\ ret[4] = stability_u.re)
        /\ (~IsFinite(Ce_s) /\ ~IsFinite(Ce_u) => ret[4] = Fin(0))

\* witness of C7: the unstable candidate was selected and its z/L returned,
\* which is not the z/L of the stable regime
C7_Witness ==
    /\ Selected
    /\ ~IsFinite(Ce_s) /\ IsFinite(Ce_u)
    /\ ret[4] = stability_u.re
    /\ stability_s.re # stability_u.re

\* C8: Ce_s is non-NaN only if the final L of the stable loop is real and
\* its z/L >= 0; Ce_u is non-NaN only if the final L of the unstable loop is
\* real and its z/L <= 0.
C8_AcceptanceGate ==
    /\ (Ce_s.k \notin {"unset", "nan"} =>
            stability_s.isreal /\ GE0(stability_s.re))
    /\ (Ce_u.k \notin {"unset", "nan"} =>
            stability_u.isreal /\ LE0(stability_u.re))

\* witness of C8: both gated candidates were accepted
C8_Witness ==
    /\ Ce_s.k \in {"fin", "inf"}
    /\ Ce_u.k \in {"fin", "inf"}
    /\ stability_s.re = Fin(1)
    /\ stability_u.re = Fin(-1)

\* C9: no loop runs more than 199 passes, and a loop that no fault aborted
\* ran exactly 199 passes, the unstable loop (whose body reassigns x)
\* included.
C9_BoundedPasses ==
    /\ iter <= NPasses
    /\ (pc = "u_seed" => iter = NPasses)
    /\ (pc = "u_extract" /\ "u" \notin printed => iter = NPasses)
    /\ (pc = "n_extract" /\ "n" \notin printed => iter = NPasses)

\* witness of C9: the unstable loop ended without a fault after its body
\* reassigned x in the last pass
C9_Witness ==
    /\ pc = "u_extract"
    /\ printed = {}
    /\ iter = NPasses
    /\ x = Fin(2)

\* C10: every outcome of single_calc, the NaN outcomes included, becomes one
\* result row with the four output columns, and the batch run does not raise.
C10_NaNRowsAreDataGaps ==
    ret # <<>> =>
        /\ exc = "none"
        /\ pc # "run_raised"
        /\ (pc = "run_done" =>
                /\ results = <<frame>>
                /\ frame.columns = OutputColumns
                /\ Len(frame.data) = Len(OutputColumns))

\* C13: after every completed pass of the stable and of the unstable loop,
\* z0t was recomputed in that pass (as z0q was), so the t* of the following
\* pass does not read the z0t of the seeding.
C13_ZotRecomputedEachPass ==
    /\ (pc = "s_loop" /\ iter >= 1 =>
            /\ tag["zoq"] = [by |-> "s", at |-> "fresh"]
            /\ tag["zot"] = [by |-> "s", at |-> "fresh"])
    /\ (pc = "u_loop" /\ iter >= 1 =>
            /\ tag["zoq"] = [by |-> "u", at |-> "fresh"]
            /\ tag["zot"] = [by |-> "u", at |-> "fresh"])

\* ------------------------------------------------------- properties of Aero.run
\* the caller's table as run sees it after applying variable_names
Mapped ==
    IF args.variable_names.none THEN before
    ELSE Rename(before, args.variable_names.pairs)

\* the table has a frame, and a required input column is absent after mapping
MissingAfterMapping ==
    /\ before.assigned
    /\ \E c \in {"WS", "P", "T_air", "T_skin", "RH"} : ~Has(Mapped, c)

\* run has ended, by returning or by raising
RunEnded == run_pc \in {"returned", "raised"}

OutputNames == {OutputColumns[k] : k \in 1..Len(OutputColumns)}

\* C11: when a required input column is absent after applying
\* variable_names, run prints the diagnostic and returns, having created no
\* pool, invoked _calc for no row and written no output column.
C11_FailFastOnMissingColumns ==
    MissingAfterMapping =>
        /\ ~pool.created
        /\ calls = <<>>
        /\ failed = {}
        /\ run_exc = "none"
        /\ \A c \in OutputNames : ~Has(self_df, c) /\ ~Has(df, c)
        /\ (run_pc # "start" =>
                run_pc = "returned" /\ diag = {"missing_columns"})

\* witness of C11: a mapping was supplied, RH is still absent after it, and
\* run has returned with the diagnostic
C11_Witness ==
    /\ MissingAfterMapping
    /\ args.variable_names.pairs # {}
    /\ Has(Mapped, "WS") /\ ~Has(Mapped, "RH")
    /\ run_pc = "returned"
    /\ "missing_columns" \in diag

\* what _calc yields for row i of the caller's table
RowOutcome(i) == calc_of[InputRow(WithHelpers(Mapped), i).obs]

\* C12: for a table with all required columns, run ends by returning, with
\* _calc invoked exactly once on every row and with the four outputs of
\* each row written at that row's timestamp, whatever the pool size and
\* the order in which the tasks finished.
C12_EachRowSolvedOnceAndWritten ==
    (before.assigned /\ ~MissingAfterMapping /\ RunEnded) =>
        /\ run_pc = "returned"
        /\ \A i \in 1..Len(before.index) :
            /\ calls[i] = 1
            /\ self_df.index[i] = before.index[i]
            /\ \A k \in 1..Len(OutputColumns) :
                /\ Has(self_df, OutputColumns[k])
                /\ self_df.columns[OutputColumns[k]].vals[i] = RowOutcome(i).data[k]

\* C14: when run returns because required columns are missing, Aero._df is
\* the table it was before the call.
C14_AbortLeavesTableUntouched ==
    (run_pc = "returned" /\ "missing_columns" \in diag) => self_df = before

\* C15: after a run that completed, Aero._df holds every column of the
\* caller's table unchanged (one called date, SH or dt included), the four
\* output columns, and nothing else.
C15_SuccessKeepsCallerColumns ==
    (run_pc = "returned" /\ diag = {}) =>
        /\ self_df.index = before.index
        /\ \A c \in ColNames :
            IF c \in OutputNames
            THEN self_df.columns[c].src = "results"
            ELSE self_df.columns[c] = before.columns[c]

\* C16: run never fails to create its pool, and the pool it creates has at
\* least one process: half the cores when nproc is None or 0.
C16_PoolHasAProcess ==
    /\ run_exc # "Pool"
    /\ (pool.created =>
            /\ pool.processes >= 1
            /\ (args.nproc.none \/ args.nproc.n = 0 =>
                    pool.processes = cpu_count \div 2))
====
